---- MODULE Spec2Model ----
(***************************************************************************)
(* Model of go-kwin6 (src/kwin.go): the script execution bridge            *)
(* loadExecuteAndGetOutput, the registration reply parser loadScript, the  *)
(* query operations GetScreens / GetDesktops / GetWindows, the aggregator  *)
(* GetEnvironment and the mutation operations.                             *)
(*                                                                         *)
(* Text is modelled as a tuple of one-character strings, so that           *)
(* strings.Fields, strconv.Atoi, strings.Split and strings.TrimSpace are   *)
(* computed, not assumed.  A journal line is a tuple of tokens.            *)
(***************************************************************************)
EXTENDS Integers, Sequences, FiniteSets, TLC

\* ------------------------------------------------------------------ bounds

\* Largest value of the wall clock.
MaxTime == 2
\* Clock ticks per microsecond, the precision of the journal time format.
TicksPerMicro == 2
\* Largest number of lines one journal query prints.
MaxLines == 2
\* Largest number of scripts the compositor holds at once.
MaxScripts == 1
\* Largest number of tokens in the body of a line whose prefix is stripped.
MaxBody == 2
\* Largest number of lines a child process writes before it exits.
MaxWrites == 3
\* Number of lines a pipe holds before a write to it blocks.
PipeCap == 2

\* ------------------------------------------------------------ text helpers

Space == " "
NUL == "NUL"
Digits == <<"0", "1", "2", "3", "4", "5", "6", "7", "8", "9">>

IsDigit(c) == \E i \in 1..Len(Digits) : Digits[i] = c
DigitVal(c) == (CHOOSE i \in 1..Len(Digits) : Digits[i] = c) - 1

\* strings.Fields: the maximal runs of non-space characters, in order.
RECURSIVE FieldsFrom(_, _, _, _)
FieldsFrom(s, i, word, acc) ==
  IF i > Len(s)
    THEN IF word = <<>> THEN acc ELSE Append(acc, word)
    ELSE IF s[i] = Space
      THEN FieldsFrom(s, i + 1, <<>>, IF word = <<>> THEN acc ELSE Append(acc, word))
      ELSE FieldsFrom(s, i + 1, Append(word, s[i]), acc)

Fields(s) == FieldsFrom(s, 1, <<>>, <<>>)

\* strings.Split(s, sep) for a one-character separator: never empty.
RECURSIVE SplitFrom(_, _, _, _, _)
SplitFrom(s, sep, i, part, acc) ==
  IF i > Len(s)
    THEN Append(acc, part)
    ELSE IF s[i] = sep
      THEN SplitFrom(s, sep, i + 1, <<>>, Append(acc, part))
      ELSE SplitFrom(s, sep, i + 1, Append(part, s[i]), acc)

Split(s, sep) == SplitFrom(s, sep, 1, <<>>, <<>>)

\* strings.TrimSpace: leading and trailing spaces removed.
RECURSIVE TrimLeft(_)
TrimLeft(s) == IF s # <<>> /\ Head(s) = Space THEN TrimLeft(Tail(s)) ELSE s

RECURSIVE TrimRight(_)
TrimRight(s) ==
  IF s # <<>> /\ s[Len(s)] = Space THEN TrimRight(SubSeq(s, 1, Len(s) - 1)) ELSE s

TrimSpace(s) == TrimRight(TrimLeft(s))

\* bytes.ReplaceAll(s, old, new) for one-character old and new.
ReplaceChar(s, old, new) == [i \in 1..Len(s) |-> IF s[i] = old THEN new ELSE s[i]]

\* The decimal value of a non-empty run of digits.
RECURSIVE DecimalValue(_)
DecimalValue(ds) ==
  IF ds = <<>> THEN 0 ELSE 10 * DecimalValue(SubSeq(ds, 1, Len(ds) - 1)) + DigitVal(ds[Len(ds)])

\* strconv.Atoi: an optional sign, then one or more digits and nothing else.
Atoi(tok) ==
  LET signed == tok # <<>> /\ tok[1] \in {"+", "-"}
      ds == IF signed THEN Tail(tok) ELSE tok
  IN IF ds # <<>> /\ \A i \in 1..Len(ds) : IsDigit(ds[i])
       THEN [ok |-> TRUE,
             val |-> IF signed /\ tok[1] = "-" THEN 0 - DecimalValue(ds) ELSE DecimalValue(ds)]
       ELSE [ok |-> FALSE, val |-> 0]

\* The decimal text of a small natural number (fmt's %d).
Itoa(n) == IF n < 10 THEN <<Digits[n + 1]>> ELSE <<Digits[(n \div 10) + 1], Digits[(n % 10) + 1]>>

\* ------------------------------------------------- child process plumbing

callProgramAndReadOutput_ignoring_exit(stdout, stderr, exitOk) ==
  [err |-> FALSE, out |-> stdout \o stderr]

\* callProgramAndReadOutput: the lines of stdout followed by the lines of
\* stderr when the child exits with status 0, an error and no lines otherwise.
callProgramAndReadOutput(stdout, stderr, exitOk) ==
  IF exitOk
    THEN [err |-> FALSE, out |-> stdout \o stderr]
    ELSE [err |-> TRUE, out |-> <<>>]

\* ------------------------------------------------------------- loadScript

\* The registration number loadScript returns with an error.
NoRegNo == -1

loadScript_without_field_count(p) ==
  IF p.err THEN [err |-> TRUE, no |-> NoRegNo]
  ELSE IF Len(p.out) # 2 THEN [err |-> TRUE, no |-> NoRegNo]
  ELSE LET sa == Fields(p.out[2])
       IN IF Len(sa) < 2 THEN [err |-> TRUE, no |-> NoRegNo]
          ELSE LET n == Atoi(sa[2])
               IN IF ~n.ok THEN [err |-> TRUE, no |-> NoRegNo]
                  ELSE [err |-> FALSE, no |-> n.val]

\* loadScript, given what callDbusSend returned: the second field of the
\* second line as an integer, or an error.
loadScript(p) ==
  IF p.err THEN [err |-> TRUE, no |-> NoRegNo]
  ELSE IF Len(p.out) # 2 THEN [err |-> TRUE, no |-> NoRegNo]
  ELSE LET sa == Fields(p.out[2])
       IN IF Len(sa) # 2 THEN [err |-> TRUE, no |-> NoRegNo]
          ELSE LET n == Atoi(sa[2])
               IN IF ~n.ok THEN [err |-> TRUE, no |-> NoRegNo]
                  ELSE [err |-> FALSE, no |-> n.val]

\* ------------------------------------------------------- journal time format

Format_rounding_up(t) == (t + TicksPerMicro - 1) \div TicksPerMicro

\* time.Format("2006-01-02 15:04:05.000000"): the time truncated to whole
\* microseconds.
Format(t) == t \div TicksPerMicro

JournalWindow_swapped(from, to) == [since |-> Format(to), until |-> Format(from)]

\* The --since / --until arguments getJournal passes to journalctl.
JournalWindow(from, to) == [since |-> Format(from), until |-> Format(to)]

\* ------------------------------------------------------- wire documents

\* The logging prefix of the script engine's print facility, "js: ".
PFX == "js: "
\* Text that is no JSON document (an engine diagnostic).
JUNK == "junk"

\* The JSON object texts that can occur in a journal line, each with the
\* fields it carries; a field a text does not carry has its zero value.
NoDoc == [name |-> "", manufacturer |-> "", id |-> "", index |-> 0,
          x11Number |-> 0, pid |-> 0, fullScreen |-> FALSE, desktopIds |-> <<>>]

Docs ==
  [d \in {"S1", "S2", "D1", "D2", "DX", "W1", "W2", "WX", "WD"} |->
    CASE d = "S1" -> [NoDoc EXCEPT !.name = "DP-1", !.manufacturer = "Dell"]
      [] d = "S2" -> [NoDoc EXCEPT !.name = "HDMI-1", !.manufacturer = "LG"]
      [] d = "D1" -> [NoDoc EXCEPT !.id = "a", !.index = 0, !.name = "Main", !.x11Number = 1]
      [] d = "D2" -> [NoDoc EXCEPT !.id = "b", !.index = 1, !.name = "Web", !.x11Number = 2]
      [] d = "DX" -> [NoDoc EXCEPT !.id = "zz", !.index = 2, !.name = "Odd", !.x11Number = 3]
      [] d = "W1" -> [NoDoc EXCEPT !.id = "w", !.pid = 1, !.fullScreen = TRUE,
                                   !.desktopIds = <<"a", "b">>]
      [] d = "W2" -> [NoDoc EXCEPT !.id = "v", !.pid = 2, !.desktopIds = <<"A">>]
      [] d = "WX" -> [NoDoc EXCEPT !.id = "zz", !.pid = 1]
      [] d = "WD" -> [NoDoc EXCEPT !.id = "w", !.pid = 1, !.desktopIds = <<"zz">>]]

\* uuid.Parse: the texts that are UUIDs, each with the UUID it denotes (the
\* upper-case and the lower-case text of a UUID denote the same UUID).
UUIDOf == [t \in {"a", "A", "b", "B", "w", "v"} |->
            CASE t \in {"a", "A"} -> "a"
              [] t \in {"b", "B"} -> "b"
              [] OTHER -> t]

ParseUUID(t) ==
  IF t \in DOMAIN UUIDOf THEN [ok |-> TRUE, id |-> UUIDOf[t]] ELSE [ok |-> FALSE, id |-> ""]

\* strings.ReplaceAll(s, "js: ", ""): every occurrence of the prefix removed.
StripPrefix(line) == SelectSeq(line, LAMBDA t : t # PFX)

\* json.Unmarshal of a text: succeeds on exactly one JSON object.
Unmarshal(text) ==
  IF Len(text) = 1 /\ text[1] \in DOMAIN Docs
    THEN [ok |-> TRUE, doc |-> Docs[text[1]]]
    ELSE [ok |-> FALSE, doc |-> NoDoc]

\* ------------------------------------------------------------- entities

ZeroDesktop == [Id |-> "", Index |-> 0, Name |-> "", X11Number |-> 0]

ScreenOf(doc) == [Name |-> doc.name, Manufacturer |-> doc.manufacturer]

DesktopOf_index_from_number(doc) ==
  [Id |-> doc.id, Index |-> doc.x11Number, Name |-> doc.name, X11Number |-> doc.x11Number]

\* json.Unmarshal into a Desktop: each field from the member its tag names.
DesktopOf(doc) ==
  [Id |-> doc.id, Index |-> doc.index, Name |-> doc.name, X11Number |-> doc.x11Number]

\* Go maps as sets of key/value pairs with unique keys.
MapPut(m, key, val) == {e \in m : e.k # key} \cup {[k |-> key, v |-> val]}
MapHas(m, key) == \E e \in m : e.k = key
MapKeys(m) == {e.k : e \in m}

\* m[key] of a map of Desktops: the zero value for a key not in the map.
MapGet(m, key) == IF MapHas(m, key) THEN (CHOOSE e \in m : e.k = key).v ELSE ZeroDesktop

\* ----------------------------------------------------- getProcessCmdLine

\* What reading /proc/<pid>/cmdline can yield: an error (the process has
\* exited, permission denied), no bytes at all (a kernel thread, a zombie),
\* or the NUL-separated arguments.
ProcReads ==
  { [err |-> TRUE, bytes |-> <<>>],
    [err |-> FALSE, bytes |-> <<>>],
    [err |-> FALSE, bytes |-> <<"/", "u", "/", "k", NUL, "-", "v", NUL>>],
    [err |-> FALSE, bytes |-> <<"k", NUL>>] }

Pids == {1, 2}

\* /proc before GetWindows has read it.
NoProcfs == [p \in Pids |-> [err |-> FALSE, bytes |-> <<>>]]

\* getProcessCmdLine: NULs become spaces, then the text is trimmed.
getProcessCmdLine(read) ==
  IF read.err
    THEN [err |-> TRUE, s |-> <<>>]
    ELSE [err |-> FALSE, s |-> TrimSpace(ReplaceChar(read.bytes, NUL, Space))]

\* ------------------------------------------------------ the query parsers

\* What a query operation hands back: "ok" with its map, "err" with no map,
\* or "panic" when the Go runtime aborts the program.
Failed(e) == [status |-> "err", err |-> e, coll |-> {}]
Panicked == [status |-> "panic", err |-> "panic", coll |-> {}]
Parsed(m) == [status |-> "ok", err |-> "", coll |-> m]

\* The loop of GetScreens over the output lines.
RECURSIVE ScreensLoop(_, _, _)
ScreensLoop(lines, i, acc) ==
  IF i > Len(lines) THEN Parsed(acc)
  ELSE LET u == Unmarshal(StripPrefix(lines[i]))
       IN IF ~u.ok THEN Failed("json")
          ELSE ScreensLoop(lines, i + 1, MapPut(acc, u.doc.name, ScreenOf(u.doc)))

\* GetScreens, given what loadExecuteAndGetOutput returned.
GetScreens(res) == IF res.err # "" THEN Failed(res.err) ELSE ScreensLoop(res.lines, 1, {})

\* The loop of GetDesktops over the output lines; uuid.MustParse panics on a
\* text that is no UUID.
RECURSIVE DesktopsLoop(_, _, _)
DesktopsLoop(lines, i, acc) ==
  IF i > Len(lines) THEN Parsed(acc)
  ELSE LET u == Unmarshal(StripPrefix(lines[i]))
       IN IF ~u.ok THEN Failed("json")
          ELSE LET key == ParseUUID(u.doc.id)
               IN IF ~key.ok THEN Panicked
                  ELSE DesktopsLoop(lines, i + 1, MapPut(acc, key.id, DesktopOf(u.doc)))

\* GetDesktops, given what loadExecuteAndGetOutput returned.
GetDesktops(res) == IF res.err # "" THEN Failed(res.err) ELSE DesktopsLoop(res.lines, 1, {})

\* json.Unmarshal into a Window: every element of desktopIds must be a UUID;
\* the key "fullScreen" is matched to the field tagged "fullscreen", keys
\* being matched regardless of case.
UnmarshalWindow(text) ==
  LET u == Unmarshal(text)
      ids == u.doc.desktopIds
  IN IF u.ok /\ \A i \in 1..Len(ids) : ParseUUID(ids[i]).ok
       THEN [ok |-> TRUE,
             w |-> [Id |-> u.doc.id, Pid |-> u.doc.pid, CmdLine |-> <<>>, AppName |-> <<>>,
                    Fullscreen |-> u.doc.fullScreen,
                    DesktopIds |-> [i \in 1..Len(ids) |-> ParseUUID(ids[i]).id],
                    Desktops |-> <<>>]]
       ELSE [ok |-> FALSE,
             w |-> [Id |-> "", Pid |-> 0, CmdLine |-> <<>>, AppName |-> <<>>,
                    Fullscreen |-> FALSE, DesktopIds |-> <<>>, Desktops |-> <<>>]]

\* The desktops argument of GetWindows: nil, or a map.
NilDesktops == [nil |-> TRUE, m |-> {}]
DesktopsMap(m) == [nil |-> FALSE, m |-> m]

ResolveDesktops_known_only(ds, ids) ==
  IF ds.nil THEN <<>>
  ELSE LET known == SelectSeq(ids, LAMBDA id : MapHas(ds.m, id))
       IN [i \in 1..Len(known) |-> MapGet(ds.m, known[i])]

\* The join of GetWindows: one Desktop per desktop id, looked up in the map.
ResolveDesktops(ds, ids) ==
  IF ds.nil THEN <<>> ELSE [i \in 1..Len(ids) |-> MapGet(ds.m, ids[i])]

\* The loop of GetWindows over the output lines; proc is the process table.
RECURSIVE WindowsLoop(_, _, _, _, _)
WindowsLoop(lines, proc, ds, i, acc) ==
  IF i > Len(lines) THEN Parsed(acc)
  ELSE LET u == UnmarshalWindow(StripPrefix(lines[i]))
       IN IF ~u.ok THEN Failed("json")
          ELSE LET raw == getProcessCmdLine(proc[u.w.Pid])
               IN IF raw.err THEN Failed("cmdline")
                  ELSE LET f == Fields(raw.s)
                       IN IF f = <<>> THEN Panicked
                          ELSE LET cmdLine == f[1]
                                   sa == Split(cmdLine, "/")
                                   d == [u.w EXCEPT !.CmdLine = cmdLine,
                                                    !.AppName = TrimSpace(sa[Len(sa)]),
                                                    !.Desktops = ResolveDesktops(ds, u.w.DesktopIds)]
                                   key == ParseUUID(d.Id)
                               IN IF ~key.ok THEN Panicked
                                  ELSE WindowsLoop(lines, proc, ds, i + 1, MapPut(acc, key.id, d))

\* GetWindows, given what loadExecuteAndGetOutput returned.
GetWindows(res, proc, ds) ==
  IF res.err # "" THEN Failed(res.err) ELSE WindowsLoop(res.lines, proc, ds, 1, {})

\* ------------------------------------------------------------------ state

VARIABLES
  top,        \* the public operation in progress, "none" between operations
  cur,        \* the operation whose loadExecuteAndGetOutput call is in progress
  pc,         \* the statement of loadExecuteAndGetOutput to execute next
  file,       \* the temporary script file of this call: none, open, closed, removed
  registry,   \* the registration numbers the compositor holds scripts under
  held,       \* the registered numbers loadScript returned that no stop was invoked for
  scriptNo,   \* the local scriptNo
  stopErr,    \* whether stopScript returned an error
  startTime,  \* the local startTime
  endTime,    \* the local endTime
  now,        \* the system clock, counted from the entry of the call in progress
              \* while the call can still read it
  runAt,      \* the clock when run was invoked
  stopAt,     \* the clock when stop completed
  reply,      \* what callDbusSend handed to loadScript in this call
  window,     \* the window this call passed to journalctl
  result,     \* what loadExecuteAndGetOutput returns: the error and the lines
  trace,      \* the external steps of this call, in order
  invoked,    \* the operations the public operation has invoked, in order
  screens,    \* GetEnvironment's local screens
  dsArg,      \* the desktops argument of GetWindows
  ret,        \* what the last public operation returned
  child,      \* what the journalctl child of this call wrote, and how it exited
  windowList, \* the compositor's windows: workspace.windowList()
  args,       \* the arguments of the mutation operation in progress
  again,      \* the outcome of a release invoked a second time
  probe,      \* a text or document under conversion, with the outcome
  procfs,     \* what /proc held for each pid when GetWindows last read it
  cmd         \* the child process in flight, its pipes and what was read from them

vars == <<top, cur, pc, file, registry, held, scriptNo, stopErr, startTime, endTime, now,
          runAt, stopAt, reply, window, result, trace, invoked, screens, dsArg, ret,
          child, windowList, args, again, probe, cmd, procfs>>

Queries == {"GetScreens", "GetDesktops", "GetWindows"}
Mutations == {"MoveWindowToDesktops", "MoveWindowToScreen", "maximizeWindowHV",
              "MinimizeWindow", "SetWindowDemandsAttention"}
PublicOps == Queries \cup Mutations \cup {"GetEnvironment", "MoveWindowToDesktopsAndScreen"}

NoResult == [err |-> "", lines |-> <<>>]
NoReply == [err |-> FALSE, out |-> <<>>]
NoWindow == [since |-> 0, until |-> 0]
NoRet == [op |-> "none", status |-> "none", err |-> "", screens |-> {}, desktops |-> {},
          windows |-> {}]

\* What a child process wrote and whether it exited normally.
NoChild == [stdout |-> <<>>, stderr |-> <<>>, exitOk |-> TRUE]
\* A compositor without windows.
NoWindows == <<>>
\* The arguments of a mutation operation: the Id of the Window, the Ids of
\* the Desktops, the Name of the Screen, the two maximize flags and the
\* demandsAttention flag; an operation reads the ones it has.
NoArgs == [w |-> "", ds |-> <<>>, s |-> "", h |-> FALSE, v |-> FALSE, att |-> FALSE]
\* Nothing under conversion.  A probe is a line to convert ("line": parse
\* and re-serialize; "text": strip the prefix), with /proc and the desktops
\* argument of GetWindows, or the outcome of the conversion.
NoProbe == [kind |-> "none", line |-> <<>>, proc |-> NoProcfs, ds |-> NilDesktops,
            out |-> <<>>]
\* No release was invoked a second time: the outcomes of a second stop and
\* of a second cleanup, and the number the second stop was invoked for.
NoAgain == [stop |-> "none", cleanup |-> "none", no |-> NoRegNo]

\* No child process: where the caller is in callProgramAndReadOutput, the
\* writes the child has still to do, the lines in the two pipes, whether the
\* child has exited, and the lines read so far.
NoCmd == [pc |-> "none", program |-> <<>>, stdout |-> <<>>, errout |-> <<>>,
          exited |-> FALSE, exitOk |-> TRUE, processOutput |-> <<>>]

\* One external step of a call: what was done, for which registration
\* number, and whether it succeeded.
Ev(e, n, ok) == [ev |-> e, no |-> n, ok |-> ok]

\* The state after NewKWin() with the compositor's windows wl; pr is the
\* text or document to convert, if any.
Start(wl, pr) ==
  /\ top = "none"
  /\ cur = "none"
  /\ pc = "idle"
  /\ file = "none"
  /\ registry = {}
  /\ held = {}
  /\ scriptNo = NoRegNo
  /\ stopErr = FALSE
  /\ startTime = 0
  /\ endTime = 0
  /\ now = 0
  /\ runAt = 0
  /\ stopAt = 0
  /\ reply = NoReply
  /\ window = NoWindow
  /\ result = NoResult
  /\ trace = <<>>
  /\ invoked = <<>>
  /\ screens = {}
  /\ dsArg = NilDesktops
  /\ ret = NoRet
  /\ child = NoChild
  /\ windowList = wl
  /\ args = NoArgs
  /\ again = NoAgain
  /\ probe = pr
  /\ procfs = NoProcfs
  /\ cmd = NoCmd

\* A compositor that has no window of the ids the callers pass.
Init == Start(NoWindows, NoProbe)

\* The entry of loadExecuteAndGetOutput, called by operation op; inv lists the
\* operations the public operation invoked before.
Enter(op, inv) ==
  /\ cur' = op
  /\ pc' = "CreateTemp"
  /\ file' = "none"
  /\ scriptNo' = NoRegNo
  /\ stopErr' = FALSE
  /\ startTime' = 0
  /\ endTime' = 0
  /\ runAt' = 0
  /\ stopAt' = 0
  /\ reply' = NoReply
  /\ window' = NoWindow
  /\ result' = NoResult
  /\ trace' = <<>>
  /\ invoked' = Append(inv, [op |-> op, status |-> "running"])
  /\ now' = 0
  /\ child' = NoChild
  /\ again' = NoAgain

\* A return statement of loadExecuteAndGetOutput with error e: the deferred
\* cleanup runs next.
Abort(e) ==
  /\ result' = [err |-> e, lines |-> <<>>]
  /\ pc' = "Close"

\* Time passes.  The clock is read by RecordStart and RecordEnd only, so a tick
\* anywhere else is a tick before the next reading; the ticks before
\* RecordStart give the call any phase within the microsecond.
Tick ==
  /\ UNCHANGED <<child, windowList, args, again, probe, cmd, procfs>>
  /\ now < MaxTime
  /\ pc \in {"startTime", "runScript", "stopScript", "endTime"}
  /\ now' = now + 1
  /\ UNCHANGED <<top, cur, pc, file, registry, held, scriptNo, stopErr, startTime, endTime,
                 runAt, stopAt, reply, window, result, trace, invoked, screens, dsArg, ret>>

\* os.CreateTemp: on failure the call returns before the cleanup is deferred.
CreateTemp ==
  /\ UNCHANGED <<child, windowList, args, again, probe, cmd, procfs>>
  /\ pc = "CreateTemp"
  /\ \E ok \in BOOLEAN :
       /\ trace' = Append(trace, Ev("create", NoRegNo, ok))
       /\ IF ok
            THEN /\ file' = "open"
                 /\ pc' = "WriteString"
                 /\ UNCHANGED result
            ELSE /\ result' = [err |-> "create", lines |-> <<>>]
                 /\ pc' = "return"
                 /\ UNCHANGED file
  /\ UNCHANGED <<top, cur, registry, held, scriptNo, stopErr, startTime, endTime, now,
                 runAt, stopAt, reply, window, invoked, screens, dsArg, ret>>

\* scriptFile.WriteString(script).
WriteString ==
  /\ UNCHANGED <<child, windowList, args, again, probe, cmd, procfs>>
  /\ pc = "WriteString"
  /\ \E ok \in BOOLEAN :
       /\ trace' = Append(trace, Ev("write", NoRegNo, ok))
       /\ IF ok THEN pc' = "Chmod" /\ UNCHANGED result ELSE Abort("write")
  /\ UNCHANGED <<top, cur, file, registry, held, scriptNo, stopErr, startTime, endTime, now,
                 runAt, stopAt, reply, window, invoked, screens, dsArg, ret>>

\* os.Chmod(scriptFile.Name(), 0777).
Chmod ==
  /\ UNCHANGED <<child, windowList, args, again, probe, cmd, procfs>>
  /\ pc = "Chmod"
  /\ \E ok \in BOOLEAN :
       /\ trace' = Append(trace, Ev("chmod", NoRegNo, ok))
       /\ IF ok THEN pc' = "loadScript" /\ UNCHANGED result ELSE Abort("chmod")
  /\ UNCHANGED <<top, cur, file, registry, held, scriptNo, stopErr, startTime, endTime, now,
                 runAt, stopAt, reply, window, invoked, screens, dsArg, ret>>

\* --------------------------------------------------- the compositor side

\* The number the compositor registers the next script under: the smallest
\* one not in use.
NextRegNo == CHOOSE n \in 0..Cardinality(registry) :
               n \notin registry /\ \A m \in 0..(n - 1) : m \in registry

\* The first line of a method reply of dbus-send --print-reply.
ReplyHeader == <<"r", "e", "t">>
\* The second line: the indented type and value.
ReplyValue(text) == <<Space, Space, "i", "n", "t", "3", "2", Space>> \o text

\* What dbus-send prints for loadScript when the compositor registered the
\* script under number n.
RepliesLoaded(n) ==
  { <<ReplyHeader, ReplyValue(Itoa(n))>>,
    <<ReplyHeader, ReplyValue(Itoa(n)) \o <<Space, "x">>>>,
    <<ReplyHeader>> }

\* What dbus-send prints for loadScript when the compositor registered
\* nothing.
RepliesRefused ==
  { <<>>,
    <<ReplyHeader, ReplyValue(<<"-", "1">>)>>,
    <<ReplyHeader, <<"i", "n", "t", "3", "2">>>>,
    <<ReplyHeader, ReplyValue(<<"x">>)>> }

\* A line a child process writes to its standard error.
StderrLine == <<"stderr">>
StderrTexts == {<<>>, <<StderrLine>>}

\* The journal lines a query of the given operation can find: prints of the
\* script, a JSON object text logged without the prefix, engine diagnostics.
LinesOf(op) ==
  CASE op = "GetScreens" -> {<<PFX, "S1">>, <<PFX, "S2">>, <<"S1">>, <<JUNK>>}
    [] op = "GetDesktops" -> {<<PFX, "D1">>, <<PFX, "D2">>, <<PFX, "DX">>, <<JUNK>>}
    [] op = "GetWindows" -> {<<PFX, "W1">>, <<PFX, "W2">>, <<PFX, "WX">>, <<PFX, "WD">>, <<JUNK>>}
    [] OTHER -> {<<JUNK>>}

\* What journalctl can print for a query of the given operation.
JournalOutputs(op) == UNION {[1..n -> LinesOf(op)] : n \in 0..MaxLines}

\* ------------------------------------------------- the mutation scripts

\* workspace.desktops and workspace.screens of the compositor.
CompositorDesktops == {"a", "b"}
CompositorScreens == {"DP-1", "HDMI-1"}

\* The state of a window of the compositor that just opened.
NewWindow(moveable) ==
  [desktops |-> {"b"}, screen |-> "DP-1", maximizedH |-> FALSE, maximizedV |-> FALSE,
   minimized |-> FALSE, demandsAttention |-> FALSE, moveable |-> moveable]

\* The elements of a sequence.
Range(seq) == {seq[i] : i \in 1..Len(seq)}

\* The script of MoveWindowToDesktops run on the windows wl.
MoveWindowToDesktopsScript(wl, a) ==
  LET d == {desktop \in CompositorDesktops : desktop \in Range(a.ds)}
  IN IF d # {} /\ a.w \in DOMAIN wl /\ wl[a.w].moveable
       THEN [wl EXCEPT ![a.w].desktops = d]
       ELSE wl

\* The script of MoveWindowToScreen.
MoveWindowToScreenScript(wl, a) ==
  IF a.s \in CompositorScreens /\ a.w \in DOMAIN wl /\ wl[a.w].moveable
    THEN [wl EXCEPT ![a.w].screen = a.s]
    ELSE wl

\* The script of maximizeWindowHV: window.setMaximize(vertically, horizontally).
maximizeWindowHVScript(wl, a) ==
  IF a.w \in DOMAIN wl
    THEN [wl EXCEPT ![a.w].maximizedV = a.v, ![a.w].maximizedH = a.h]
    ELSE wl

MinimizeWindowScript_any_window(wl, a) ==
  [x \in DOMAIN wl |-> [wl[x] EXCEPT !.minimized = TRUE]]

\* The script of MinimizeWindow.
MinimizeWindowScript(wl, a) ==
  IF a.w \in DOMAIN wl THEN [wl EXCEPT ![a.w].minimized = TRUE] ELSE wl

\* fmt.Sprintf's %s of a bool: the verb does not apply to a bool.
SprintfS(b) == IF b THEN "%!s(bool=true)" ELSE "%!s(bool=false)"

\* The script engine reading the right-hand side of an assignment: the
\* boolean literals; a script with other text there is not evaluated at all.
JSBoolean(text) ==
  CASE text = "true" -> [ok |-> TRUE, val |-> TRUE]
    [] text = "false" -> [ok |-> TRUE, val |-> FALSE]
    [] OTHER -> [ok |-> FALSE, val |-> FALSE]

\* The script of SetWindowDemandsAttention.
SetWindowDemandsAttentionScript(wl, a) ==
  LET lit == JSBoolean(SprintfS(a.att))
  IN IF lit.ok /\ a.w \in DOMAIN wl
       THEN [wl EXCEPT ![a.w].demandsAttention = lit.val]
       ELSE wl

\* What running the script of operation op does to the windows; the query
\* scripts only print.
ScriptEffect(op, wl, a) ==
  CASE op = "MoveWindowToDesktops" -> MoveWindowToDesktopsScript(wl, a)
    [] op = "MoveWindowToScreen" -> MoveWindowToScreenScript(wl, a)
    [] op = "maximizeWindowHV" -> maximizeWindowHVScript(wl, a)
    [] op = "MinimizeWindow" -> MinimizeWindowScript(wl, a)
    [] op = "SetWindowDemandsAttention" -> SetWindowDemandsAttentionScript(wl, a)
    [] OTHER -> wl

\* The arguments a caller passes to a mutation operation: the Window of a
\* live window or of one that is gone, Desktops and a Screen the compositor
\* has or has not.
WindowArgs == {"w", "x"}
ArgsOf(op) ==
  CASE op = "MoveWindowToDesktops" ->
         {[NoArgs EXCEPT !.w = w, !.ds = ds] : w \in WindowArgs, ds \in {<<"a">>, <<"q">>}}
    [] op = "MoveWindowToScreen" ->
         {[NoArgs EXCEPT !.w = w, !.s = sc] : w \in WindowArgs, sc \in {"HDMI-1", "nope"}}
    [] op = "MoveWindowToDesktopsAndScreen" ->
         {[NoArgs EXCEPT !.w = w, !.ds = ds, !.s = sc] :
            w \in WindowArgs, ds \in {<<"a">>, <<"q">>}, sc \in {"HDMI-1", "nope"}}
    [] op = "maximizeWindowHV" ->
         {[NoArgs EXCEPT !.w = w, !.h = hv[1], !.v = hv[2]] :
            w \in WindowArgs, hv \in {<<TRUE, TRUE>>, <<TRUE, FALSE>>, <<FALSE, TRUE>>}}
    [] op = "MinimizeWindow" -> {[NoArgs EXCEPT !.w = w] : w \in WindowArgs}
    [] op = "SetWindowDemandsAttention" ->
         {[NoArgs EXCEPT !.w = w, !.att = b] : w \in WindowArgs, b \in BOOLEAN}
    [] OTHER -> {NoArgs}

\* ------------------------------------------- loadExecuteAndGetOutput, cont.

LoadFailed_never(r) == FALSE

\* The test of loadScript's error: if err != nil.
LoadFailed(r) == r.err

StopFailed_never(e) == FALSE

\* The test of stopScript's error: if err != nil.
StopFailed(e) == e

\* scriptNo, err := k.loadScript(scriptFile.Name()).
LoadScript ==
  /\ UNCHANGED <<child, windowList, args, again, probe, cmd, procfs>>
  /\ pc = "loadScript"
  /\ \E loaded \in BOOLEAN, stderr \in StderrTexts, exitOk \in BOOLEAN :
       /\ loaded => Cardinality(registry) < MaxScripts
       /\ \E stdout \in IF loaded THEN RepliesLoaded(NextRegNo) ELSE RepliesRefused :
            LET p == callProgramAndReadOutput(stdout, stderr, exitOk)
                r == loadScript(p)
            IN /\ registry' = IF loaded THEN registry \cup {NextRegNo} ELSE registry
               /\ reply' = p
               /\ trace' = Append(trace, Ev("register", r.no, ~r.err))
               /\ IF LoadFailed(r)
                    THEN /\ Abort("register")
                         /\ UNCHANGED <<scriptNo, held>>
                    ELSE /\ scriptNo' = r.no
                         /\ held' = held \cup ({r.no} \cap registry')
                         /\ pc' = "startTime"
                         /\ UNCHANGED result
  /\ UNCHANGED <<top, cur, file, stopErr, startTime, endTime, now, runAt, stopAt, window,
                 invoked, screens, dsArg, ret>>

\* startTime := time.Now().  loadScript's reply is dead from here on.
RecordStart ==
  /\ UNCHANGED <<child, windowList, args, again, probe, cmd, procfs>>
  /\ pc = "startTime"
  /\ reply' = NoReply
  /\ startTime' = now
  /\ trace' = Append(trace, Ev("start", scriptNo, TRUE))
  /\ pc' = "runScript"
  /\ UNCHANGED <<top, cur, file, registry, held, scriptNo, stopErr, endTime, now, runAt,
                 stopAt, window, result, invoked, screens, dsArg, ret>>

\* err = k.runScript(scriptNo): on failure the call returns.
RunScript ==
  /\ UNCHANGED <<child, args, again, probe, cmd, procfs>>
  /\ pc = "runScript"
  /\ \E ok \in BOOLEAN :
       /\ ok => scriptNo \in registry
       /\ runAt' = now
       /\ trace' = Append(trace, Ev("run", scriptNo, ok))
       /\ windowList' = IF ok THEN ScriptEffect(cur, windowList, args) ELSE windowList
       /\ IF ok THEN pc' = "stopScript" /\ UNCHANGED result ELSE Abort("run")
  /\ UNCHANGED <<top, cur, file, registry, held, scriptNo, stopErr, startTime, endTime, now,
                 stopAt, reply, window, invoked, screens, dsArg, ret>>

\* err = k.stopScript(scriptNo).
StopScript ==
  /\ UNCHANGED <<child, windowList, args, again, probe, cmd, procfs>>
  /\ pc = "stopScript"
  /\ \E ok \in BOOLEAN :
       /\ ok => scriptNo \in registry
       /\ registry' = IF ok THEN registry \ {scriptNo} ELSE registry
       /\ stopErr' = ~ok
       /\ trace' = Append(trace, Ev("stop", scriptNo, ok))
  /\ held' = held \ {scriptNo}
  /\ stopAt' = now
  /\ pc' = "endTime"
  /\ UNCHANGED <<top, cur, file, scriptNo, startTime, endTime, now, runAt, reply, window,
                 result, invoked, screens, dsArg, ret>>

\* endTime := time.Now(), then the test of stopScript's error.
RecordEnd ==
  /\ UNCHANGED <<child, windowList, args, again, probe, cmd, procfs>>
  /\ pc = "endTime"
  /\ endTime' = now
  /\ trace' = Append(trace, Ev("end", scriptNo, TRUE))
  /\ IF StopFailed(stopErr) THEN Abort("stop") ELSE pc' = "getJournal" /\ UNCHANGED result
  /\ UNCHANGED <<top, cur, file, registry, held, scriptNo, stopErr, startTime, now, runAt,
                 stopAt, reply, window, invoked, screens, dsArg, ret>>

\* journalOutput, err := k.getJournal(startTime, endTime), and the return.
\* The clock and the time locals are dead from here on.
GetJournal ==
  /\ UNCHANGED <<windowList, args, again, probe, cmd, procfs>>
  /\ pc = "getJournal"
  /\ \E stdout \in JournalOutputs(cur), stderr \in StderrTexts, exitOk \in BOOLEAN :
       LET p == callProgramAndReadOutput(stdout, stderr, exitOk)
       IN /\ trace' = Append(trace, Ev("journal", scriptNo, ~p.err))
          /\ child' = [stdout |-> stdout, stderr |-> stderr, exitOk |-> exitOk]
          /\ IF p.err
               THEN Abort("journal")
               ELSE result' = [err |-> "", lines |-> p.out] /\ pc' = "Close"
  /\ window' = JournalWindow(startTime, endTime)
  /\ startTime' = 0
  /\ endTime' = 0
  /\ runAt' = 0
  /\ stopAt' = 0
  /\ now' = 0
  /\ UNCHANGED <<top, cur, file, registry, held, scriptNo, stopErr, reply, invoked, screens,
                 dsArg, ret>>

Close_reporting_failure ==
  /\ UNCHANGED <<child, windowList, args, again, probe, cmd, procfs>>
  /\ pc = "Close"
  /\ \E ok \in BOOLEAN :
       /\ trace' = Append(trace, Ev("close", NoRegNo, ok))
       /\ file' = IF ok THEN "closed" ELSE file
       /\ pc' = IF ok THEN "Remove" ELSE "return"
  /\ scriptNo' = NoRegNo
  /\ stopErr' = FALSE
  /\ startTime' = 0
  /\ endTime' = 0
  /\ runAt' = 0
  /\ stopAt' = 0
  /\ reply' = NoReply
  /\ window' = NoWindow
  /\ now' = 0
  /\ result' = IF file' = file THEN [err |-> "close", lines |-> <<>>] ELSE result
  /\ UNCHANGED <<top, cur, registry, held, invoked, screens, dsArg, ret>>

\* The deferred cleanup, first half: scriptFile.Close(); when it fails the
\* cleanup returns.  The locals of the function body are dead from here on.
Close ==
  /\ UNCHANGED <<child, windowList, args, again, probe, cmd, procfs>>
  /\ pc = "Close"
  /\ \E ok \in BOOLEAN :
       /\ trace' = Append(trace, Ev("close", NoRegNo, ok))
       /\ file' = IF ok THEN "closed" ELSE file
       /\ pc' = IF ok THEN "Remove" ELSE "return"
  /\ scriptNo' = NoRegNo
  /\ stopErr' = FALSE
  /\ startTime' = 0
  /\ endTime' = 0
  /\ runAt' = 0
  /\ stopAt' = 0
  /\ reply' = NoReply
  /\ window' = NoWindow
  /\ now' = 0
  /\ UNCHANGED <<top, cur, registry, held, result, invoked, screens, dsArg, ret>>

\* The deferred cleanup, second half: os.Remove(scriptFile.Name()).
Remove ==
  /\ UNCHANGED <<child, windowList, args, again, probe, cmd, procfs>>
  /\ pc = "Remove"
  /\ \E ok \in BOOLEAN :
       /\ trace' = Append(trace, Ev("remove", NoRegNo, ok))
       /\ file' = IF ok THEN "removed" ELSE file
  /\ pc' = "return"
  /\ UNCHANGED <<top, cur, registry, held, scriptNo, stopErr, startTime, endTime, now,
                 runAt, stopAt, reply, window, result, invoked, screens, dsArg, ret>>

\* --------------------------------------------------- the public operations

\* The operation a public operation invokes first.
FirstOf(op) ==
  CASE op = "GetEnvironment" -> "GetScreens"
    [] op = "MoveWindowToDesktopsAndScreen" -> "MoveWindowToDesktops"
    [] OTHER -> op

\* The desktops arguments a caller of GetWindows passes.
DesktopArgs ==
  { NilDesktops, DesktopsMap({}), DesktopsMap({[k |-> "a", v |-> DesktopOf(Docs["D1"])]}) }

\* The status of the last invoked operation recorded.
Returned(st) == [invoked EXCEPT ![Len(invoked)].status = st]

\* The public operation returns rec to its caller; a panic ends the program.
Finish(rec) ==
  /\ ret' = rec
  /\ top' = IF rec.status = "panic" THEN "crashed" ELSE "none"
  /\ cur' = "none"
  /\ pc' = "idle"
  /\ invoked' = Returned(rec.status)
  /\ file' = "none"
  /\ trace' = <<>>
  /\ child' = NoChild
  /\ args' = NoArgs
  /\ again' = NoAgain
  /\ UNCHANGED <<scriptNo, stopErr, startTime, endTime, now, runAt, stopAt, reply, window,
                 result>>

\* What an operation returns that failed with r; GetEnvironment returns
\* Environment{} with the error.
Failure(r) == [NoRet EXCEPT !.op = top, !.status = r.status, !.err = r.err]

GetEnvironmentNext_no_short_circuit(sub, r) ==
  CASE sub = "GetScreens" /\ r.status = "ok" -> "GetDesktops"
    [] sub = "GetDesktops" /\ r.status # "panic" -> "GetWindows"
    [] OTHER -> "return"

\* GetEnvironment: the operation invoked after sub returned r, or "return".
GetEnvironmentNext(sub, r) ==
  CASE sub = "GetScreens" /\ r.status = "ok" -> "GetDesktops"
    [] sub = "GetDesktops" /\ r.status = "ok" -> "GetWindows"
    [] OTHER -> "return"

\* The caller is done with what the last public operation returned.
Forget ==
  /\ pc = "idle"
  /\ top = "none"
  /\ ret # NoRet
  /\ ret' = NoRet
  /\ result' = NoResult
  /\ procfs' = NoProcfs
  /\ dsArg' = NilDesktops
  /\ screens' = {}
  /\ invoked' = <<>>
  /\ UNCHANGED <<top, cur, pc, file, registry, held, scriptNo, stopErr, startTime, endTime,
                 now, runAt, stopAt, reply, window, trace, child, windowList, args, again,
                 probe, cmd>>

\* A caller starts the public operation op.
CallOp(op) ==
  /\ pc = "idle"
  /\ top = "none"
  /\ ret = NoRet
  /\ top' = op
  /\ Enter(FirstOf(op), <<>>)
  /\ \E ds \in IF op = "GetWindows" THEN DesktopArgs ELSE {NilDesktops} : dsArg' = ds
  /\ \E a \in ArgsOf(op) : args' = a
  /\ ret' = NoRet
  /\ screens' = {}
  /\ procfs' = NoProcfs
  /\ UNCHANGED <<registry, held, windowList, probe, cmd>>

\* A caller starts a public operation.
Call == \E op \in PublicOps : CallOp(op)

\* A caller starts a mutation operation.
CallMutation == \E op \in Mutations \cup {"MoveWindowToDesktopsAndScreen"} : CallOp(op)

\* GetScreens after loadExecuteAndGetOutput returned, and GetEnvironment
\* after GetScreens returned.
ReturnGetScreens ==
  /\ UNCHANGED <<windowList, probe, cmd, procfs>>
  /\ pc = "return"
  /\ cur = "GetScreens"
  /\ LET r == GetScreens(result)
     IN IF top = "GetEnvironment" /\ GetEnvironmentNext(cur, r) # "return"
          THEN /\ screens' = r.coll
               /\ Enter(GetEnvironmentNext(cur, r), Returned(r.status))
               /\ UNCHANGED <<top, ret, args>>
          ELSE /\ Finish(IF r.status = "ok" /\ top # "GetEnvironment"
                           THEN [NoRet EXCEPT !.op = top, !.status = "ok", !.screens = r.coll]
                           ELSE Failure(r))
               /\ UNCHANGED screens
  /\ UNCHANGED <<registry, held, dsArg>>

\* GetDesktops after loadExecuteAndGetOutput returned, and GetEnvironment
\* after GetDesktops returned.
ReturnGetDesktops ==
  /\ UNCHANGED <<windowList, probe, cmd, procfs>>
  /\ pc = "return"
  /\ cur = "GetDesktops"
  /\ LET r == GetDesktops(result)
     IN IF top = "GetEnvironment" /\ GetEnvironmentNext(cur, r) # "return"
          THEN /\ dsArg' = DesktopsMap(r.coll)
               /\ Enter(GetEnvironmentNext(cur, r), Returned(r.status))
               /\ UNCHANGED <<top, ret, args>>
          ELSE /\ Finish(IF r.status = "ok" /\ top # "GetEnvironment"
                           THEN [NoRet EXCEPT !.op = top, !.status = "ok", !.desktops = r.coll]
                           ELSE Failure(r))
               /\ UNCHANGED dsArg
  /\ UNCHANGED <<registry, held, screens>>

\* GetWindows after loadExecuteAndGetOutput returned, and GetEnvironment
\* after GetWindows returned.
ReturnGetWindows ==
  /\ UNCHANGED <<windowList, probe, cmd>>
  /\ pc = "return"
  /\ cur = "GetWindows"
  /\ \E proc \in [Pids -> ProcReads] :
       LET r == GetWindows(result, proc, dsArg)
       IN procfs' = proc /\
          Finish(IF r.status # "ok" THEN Failure(r)
                 ELSE IF top = "GetEnvironment"
                   THEN [NoRet EXCEPT !.op = top, !.status = "ok", !.screens = screens,
                                      !.desktops = dsArg.m, !.windows = r.coll]
                   ELSE [NoRet EXCEPT !.op = top, !.status = "ok", !.windows = r.coll])
  /\ UNCHANGED <<registry, held, screens, dsArg>>

ReturnMutation_no_short_circuit ==
  /\ UNCHANGED <<windowList, probe, cmd, procfs>>
  /\ pc = "return"
  /\ cur \in Mutations
  /\ LET st == IF result.err = "" THEN "ok" ELSE "err"
     IN IF top = "MoveWindowToDesktopsAndScreen" /\ cur = "MoveWindowToDesktops"
          THEN /\ Enter("MoveWindowToScreen", Returned(st))
               /\ UNCHANGED <<top, ret, args>>
          ELSE Finish([NoRet EXCEPT !.op = top, !.status = st, !.err = result.err])
  /\ UNCHANGED <<registry, held, screens, dsArg>>

\* A mutation operation after loadExecuteAndGetOutput returned, and
\* MoveWindowToDesktopsAndScreen after MoveWindowToDesktops returned.
ReturnMutation ==
  /\ UNCHANGED <<windowList, probe, cmd, procfs>>
  /\ pc = "return"
  /\ cur \in Mutations
  /\ LET st == IF result.err = "" THEN "ok" ELSE "err"
     IN IF top = "MoveWindowToDesktopsAndScreen" /\ cur = "MoveWindowToDesktops" /\ st = "ok"
          THEN /\ Enter("MoveWindowToScreen", Returned(st))
               /\ UNCHANGED <<top, ret, args>>
          ELSE Finish([NoRet EXCEPT !.op = top, !.status = st, !.err = result.err])
  /\ UNCHANGED <<registry, held, screens, dsArg>>

Next ==
  \/ Tick
  \/ Call
  \/ CreateTemp
  \/ WriteString
  \/ Chmod
  \/ LoadScript
  \/ RecordStart
  \/ RunScript
  \/ StopScript
  \/ RecordEnd
  \/ GetJournal
  \/ Close
  \/ Remove
  \/ ReturnGetScreens
  \/ ReturnGetDesktops
  \/ ReturnGetWindows
  \/ ReturnMutation
  \/ Forget

Spec == Init /\ [][Next]_vars

\* ------------------------------------------- the mutations on a live window

\* A compositor with one live window, "w", movable or not.
InitMutations == \E moveable \in BOOLEAN : Start([x \in {"w"} |-> NewWindow(moveable)], NoProbe)

NextMutations ==
  \/ CallMutation
  \/ CreateTemp
  \/ WriteString
  \/ Chmod
  \/ LoadScript
  \/ RecordStart
  \/ RunScript
  \/ StopScript
  \/ RecordEnd
  \/ GetJournal
  \/ Close
  \/ Remove
  \/ ReturnMutation
  \/ Forget

SpecMutations == InitMutations /\ [][NextMutations]_vars

\* ------------------------------------------------------- the conversions

\* The entity a JSON object text is printed for.
EntityOf(d) ==
  CASE d \in {"S1", "S2"} -> "Screen"
    [] d \in {"D1", "D2", "DX"} -> "Desktop"
    [] OTHER -> "Window"

\* The JSON object a text denotes: the members the query script printed.
InputDocument(d) ==
  LET x == Docs[d]
  IN CASE EntityOf(d) = "Screen" -> [name |-> x.name, manufacturer |-> x.manufacturer]
       [] EntityOf(d) = "Desktop" ->
            [id |-> x.id, index |-> x.index, name |-> x.name, x11Number |-> x.x11Number]
       [] OTHER ->
            [id |-> x.id, pid |-> x.pid, fullScreen |-> x.fullScreen,
             desktopIds |-> x.desktopIds]

\* json.Marshal of the entities: one member per field, named by its tag.
MarshalScreen(r) == [name |-> r.Name, manufacturer |-> r.Manufacturer]
MarshalDesktop(r) ==
  [id |-> r.Id, index |-> r.Index, name |-> r.Name, x11Number |-> r.X11Number]
MarshalWindow(r) ==
  [id |-> r.Id, pid |-> r.Pid, cmdline |-> r.CmdLine, appname |-> r.AppName,
   fullscreen |-> r.Fullscreen, desktopIds |-> r.DesktopIds,
   desktops |-> [i \in 1..Len(r.Desktops) |-> MarshalDesktop(r.Desktops[i])]]

\* The line parsed by the query operation of its entity, and the records of
\* the returned map re-serialized.
ParseAndMarshal(line, proc, ds) ==
  LET res == [err |-> "", lines |-> <<line>>]
      entity == EntityOf(line[Len(line)])
      r == CASE entity = "Screen" -> GetScreens(res)
             [] entity = "Desktop" -> GetDesktops(res)
             [] OTHER -> GetWindows(res, proc, ds)
  IN IF r.status # "ok" THEN [status |-> r.status, docs |-> {}]
     ELSE [status |-> "ok",
           docs |-> CASE entity = "Screen" -> {MarshalScreen(e.v) : e \in r.coll}
                      [] entity = "Desktop" -> {MarshalDesktop(e.v) : e \in r.coll}
                      [] OTHER -> {MarshalWindow(e.v) : e \in r.coll}]

\* The lines to parse: the prefix and one JSON object text; for a Window
\* line, what /proc holds and the desktops argument.
LineProbes ==
  { [NoProbe EXCEPT !.kind = "line", !.line = <<PFX, d>>] :
      d \in {x \in DOMAIN Docs : EntityOf(x) # "Window"} }
  \cup
  { [NoProbe EXCEPT !.kind = "line", !.line = <<PFX, d>>, !.proc = proc, !.ds = ds] :
      d \in {x \in DOMAIN Docs : EntityOf(x) = "Window"},
      proc \in [Pids -> ProcReads], ds \in DesktopArgs }

\* The bodies of a line: tokens of JSON text, among them the text "js: ".
Bodies == UNION {[1..n -> {PFX, JUNK, "S1"}] : n \in 1..MaxBody}

\* The lines to strip: the prefix followed by a body.
TextProbes == { [NoProbe EXCEPT !.kind = "text", !.line = <<PFX>> \o body] : body \in Bodies }

InitConversions == \E pr \in LineProbes \cup TextProbes : Start(NoWindows, pr)

\* A line is parsed and the record re-serialized.
RoundTrip ==
  /\ probe.kind = "line"
  /\ LET r == ParseAndMarshal(probe.line, probe.proc, probe.ds)
     IN probe' = [probe EXCEPT !.kind = IF r.status = "ok" THEN "document" ELSE r.status,
                               !.out = r.docs]
  /\ UNCHANGED <<top, cur, pc, file, registry, held, scriptNo, stopErr, startTime, endTime,
                 now, runAt, stopAt, reply, window, result, trace, invoked, screens, dsArg,
                 ret, child, windowList, args, again, procfs, cmd>>

\* The prefix of a line is stripped: the text handed to json.Unmarshal.
StripLine ==
  /\ probe.kind = "text"
  /\ probe' = [probe EXCEPT !.kind = "stripped", !.out = StripPrefix(probe.line)]
  /\ UNCHANGED <<top, cur, pc, file, registry, held, scriptNo, stopErr, startTime, endTime,
                 now, runAt, stopAt, reply, window, result, trace, invoked, screens, dsArg,
                 ret, child, windowList, args, again, procfs, cmd>>

NextConversions ==
  \/ RoundTrip
  \/ StripLine

SpecConversions == InitConversions /\ [][NextConversions]_vars

\* ------------------------------------------------- a release invoked twice

ReleaseOutcome_fatal(ok) == IF ok THEN "ok" ELSE "panic"

\* What stopScript and the deferred cleanup do with the error of their
\* release: stopScript returns it, the cleanup prints it and returns.
ReleaseOutcome(ok) == IF ok THEN "ok" ELSE "err"

\* stopScript invoked once more for the number this call has just stopped:
\* the compositor stops a script only under a number it holds.
StopAgain ==
  /\ pc = "endTime"
  /\ ~stopErr
  /\ again.stop = "none"
  /\ \E ok \in BOOLEAN :
       /\ ok => scriptNo \in registry
       /\ registry' = IF ok THEN registry \ {scriptNo} ELSE registry
       /\ again' = [again EXCEPT !.stop = ReleaseOutcome(ok), !.no = scriptNo]
  /\ UNCHANGED <<top, cur, pc, file, held, scriptNo, stopErr, startTime, endTime, now, runAt,
                 stopAt, reply, window, result, trace, invoked, screens, dsArg, ret, child,
                 windowList, args, probe, cmd, procfs>>

\* The deferred cleanup run once more after it removed the file: Close fails
\* on the closed file and the cleanup returns before os.Remove; had Close
\* succeeded, os.Remove would fail on the absent file.
CleanupAgain ==
  /\ pc = "return"
  /\ file = "removed"
  /\ again.cleanup = "none"
  /\ again' = [again EXCEPT !.cleanup = ReleaseOutcome(file = "open")]
  /\ UNCHANGED <<top, cur, pc, file, registry, held, scriptNo, stopErr, startTime, endTime,
                 now, runAt, stopAt, reply, window, result, trace, invoked, screens, dsArg,
                 ret, child, windowList, args, probe, cmd, procfs>>

NextRelease ==
  \/ CallMutation
  \/ CreateTemp
  \/ WriteString
  \/ Chmod
  \/ LoadScript
  \/ RecordStart
  \/ RunScript
  \/ StopScript
  \/ StopAgain
  \/ RecordEnd
  \/ GetJournal
  \/ Close
  \/ Remove
  \/ CleanupAgain
  \/ ReturnMutation
  \/ Forget

SpecRelease == Init /\ [][NextRelease]_vars

\* ------------------------------------- callProgramAndReadOutput, step by step

\* What a child process does before it exits: it writes lines, each to its
\* standard output or to its standard error, in some order.
ChildPrograms == UNION {[1..n -> {"stdout", "errout"}] : n \in 0..MaxWrites}

\* cmd.StdoutPipe(), cmd.StderrPipe() and cmd.Start(): the child runs, the
\* caller is about to scan the child's standard output.
StartChild ==
  /\ pc = "idle"
  /\ top = "none"
  /\ cmd.pc = "none"
  /\ \E program \in ChildPrograms :
       cmd' = [NoCmd EXCEPT !.pc = "scanStdout", !.program = program]
  /\ UNCHANGED <<top, cur, pc, file, registry, held, scriptNo, stopErr, startTime, endTime,
                 now, runAt, stopAt, reply, window, result, trace, invoked, screens, dsArg,
                 ret, child, windowList, args, again, probe, procfs>>

\* The child writes its next line; the write blocks while the pipe is full.
ChildWrite ==
  /\ cmd.pc \in {"scanStdout", "scanErrout", "Wait"}
  /\ ~cmd.exited
  /\ cmd.program # <<>>
  /\ LET fd == Head(cmd.program)
     IN /\ Len(cmd[fd]) < PipeCap
        /\ cmd' = [cmd EXCEPT ![fd] = Append(@, fd), !.program = Tail(@)]
  /\ UNCHANGED <<top, cur, pc, file, registry, held, scriptNo, stopErr, startTime, endTime,
                 now, runAt, stopAt, reply, window, result, trace, invoked, screens, dsArg,
                 ret, child, windowList, args, again, probe, procfs>>

\* The child has written everything and exits, with a zero status or not;
\* the write ends of both pipes are closed.
ChildExit ==
  /\ cmd.pc \in {"scanStdout", "scanErrout", "Wait"}
  /\ ~cmd.exited
  /\ cmd.program = <<>>
  /\ \E exitOk \in BOOLEAN : cmd' = [cmd EXCEPT !.exited = TRUE, !.exitOk = exitOk]
  /\ UNCHANGED <<top, cur, pc, file, registry, held, scriptNo, stopErr, startTime, endTime,
                 now, runAt, stopAt, reply, window, result, trace, invoked, screens, dsArg,
                 ret, child, windowList, args, again, probe, procfs>>

\* for stdScanner.Scan() { processOutput = append(processOutput, ...) }: a
\* read takes a line of the pipe, waits while the pipe is empty and its write
\* end is open, and ends the loop at end-of-file.
ScanStdout ==
  /\ cmd.pc = "scanStdout"
  /\ IF cmd.stdout # <<>>
       THEN cmd' = [cmd EXCEPT !.processOutput = Append(@, Head(cmd.stdout)),
                               !.stdout = Tail(@)]
       ELSE /\ cmd.exited
            /\ cmd' = [cmd EXCEPT !.pc = "scanErrout"]
  /\ UNCHANGED <<top, cur, pc, file, registry, held, scriptNo, stopErr, startTime, endTime,
                 now, runAt, stopAt, reply, window, result, trace, invoked, screens, dsArg,
                 ret, child, windowList, args, again, probe, procfs>>

\* for errScanner.Scan() { processOutput = append(processOutput, ...) }.
ScanErrout ==
  /\ cmd.pc = "scanErrout"
  /\ IF cmd.errout # <<>>
       THEN cmd' = [cmd EXCEPT !.processOutput = Append(@, Head(cmd.errout)),
                               !.errout = Tail(@)]
       ELSE /\ cmd.exited
            /\ cmd' = [cmd EXCEPT !.pc = "Wait"]
  /\ UNCHANGED <<top, cur, pc, file, registry, held, scriptNo, stopErr, startTime, endTime,
                 now, runAt, stopAt, reply, window, result, trace, invoked, screens, dsArg,
                 ret, child, windowList, args, again, probe, procfs>>

\* cmd.Wait() and the return: the lines read, or nil with the exit error.
Wait ==
  /\ cmd.pc = "Wait"
  /\ cmd.exited
  /\ cmd' = [cmd EXCEPT !.pc = "returned",
                        !.processOutput = IF cmd.exitOk THEN @ ELSE <<>>]
  /\ UNCHANGED <<top, cur, pc, file, registry, held, scriptNo, stopErr, startTime, endTime,
                 now, runAt, stopAt, reply, window, result, trace, invoked, screens, dsArg,
                 ret, child, windowList, args, again, probe, procfs>>

NextPipes ==
  \/ StartChild
  \/ ChildWrite
  \/ ChildExit
  \/ ScanStdout
  \/ ScanErrout
  \/ Wait

SpecPipes == Init /\ [][NextPipes]_vars

\* ------------------------------------------------------------ properties

\* The positions of the trace holding step e.
At(e) == {i \in 1..Len(trace) : trace[i].ev = e}
\* The steps of the body of loadExecuteAndGetOutput that can fail.
MainSteps == {"create", "write", "chmod", "register", "run", "stop", "journal"}
\* The positions of the trace holding a failed step of the body.
Failures == {i \in 1..Len(trace) : trace[i].ev \in MainSteps /\ ~trace[i].ok}
\* The last step of the call is e.
LastStep(e) == trace # <<>> /\ trace[Len(trace)].ev = e

\* C1 (as stated): when the call returns, every registration number
\* loadScript returned has been passed to stop, also when run failed.
C1_StopBeforeReturn ==
  pc = "return" =>
    \A i \in At("register") :
      trace[i].ok => \E j \in At("stop") : j > i /\ trace[j].no = trace[i].no

\* C2 (as stated): at most one registration number is held at any time, none
\* is held between operations, and register is never called while one is held.
C2_SingleInFlight ==
  /\ Cardinality(held) <= 1
  /\ pc = "idle" => held = {}
  /\ pc = "loadScript" => held = {}

\* C3 (as stated): when a call that created its temporary file returns, the
\* removal of the file has been attempted.
C3_RemovalAttempted ==
  (pc = "return" /\ \E i \in At("create") : trace[i].ok) => At("remove") # {}

\* C4: the call returns the error of the first failed step and no lines with
\* it; after a failed create, write, chmod, register or run no further step
\* of the body is made, after a failed stop only the end time is taken and
\* the journal is not queried; without a failed step no error is returned.
C4_FirstError ==
  pc = "return" =>
    /\ result.err # "" => result.lines = <<>>
    /\ (result.err = "") = (Failures = {})
    /\ \A i \in Failures :
         /\ result.err = trace[i].ev
         /\ \A j \in (i + 1)..Len(trace) :
              /\ trace[j].ev \notin MainSteps
              /\ trace[j].ev = "end" => trace[i].ev = "stop"
              /\ trace[j].ev # "start"

\* C4 witness: a call returned the error of stop although run succeeded.
C4_Witness ==
  /\ pc = "return"
  /\ result.err = "stop"
  /\ \E i \in At("run") : trace[i].ok

\* C5: run is invoked only with the number a successful register of the same
\* call returned, stop only with that number and after run was invoked, and
\* neither after a failed register.
C5_RegisterRunStop ==
  /\ \A j \in At("run") :
       \E i \in At("register") : i < j /\ trace[i].ok /\ trace[i].no = trace[j].no
  /\ \A k \in At("stop") :
       /\ \E j \in At("run") : j < k /\ trace[j].no = trace[k].no
       /\ \E i \in At("register") : i < k /\ trace[i].ok /\ trace[i].no = trace[k].no
  /\ (\E i \in At("register") : ~trace[i].ok) => At("run") = {} /\ At("stop") = {}

\* C5 witness: a call registered, ran and stopped one script.
C5_Witness ==
  /\ At("register") # {}
  /\ At("run") # {}
  /\ \E k \in At("stop") : trace[k].ok

WellFormedReply(p) ==
  /\ ~p.err
  /\ Len(p.out) = 2
  /\ Len(Fields(p.out[2])) = 2
  /\ Atoi(Fields(p.out[2])[2]).ok

\* C7: loadScript returns a registration number exactly when the reply is two
\* lines, the second of two fields, the second field an integer, and then
\* that integer; otherwise the call fails with loadScript's error.
C7_RegisterReply ==
  LastStep("register") =>
    LET e == trace[Len(trace)]
    IN /\ e.ok = WellFormedReply(reply)
       /\ e.ok => /\ e.no = Atoi(Fields(reply.out[2])[2]).val
                  /\ scriptNo = e.no
                  /\ result.err = ""
       /\ ~e.ok => /\ e.no = NoRegNo
                   /\ scriptNo = NoRegNo
                   /\ result.err = "register"

\* C7 witness: a reply whose second line has three fields was refused.
C7_Witness ==
  /\ LastStep("register")
  /\ ~trace[Len(trace)].ok
  /\ ~reply.err
  /\ Len(reply.out) = 2
  /\ Len(Fields(reply.out[2])) = 3

\* C8: GetEnvironment invokes GetScreens, GetDesktops, GetWindows in this
\* order, each only after the one before returned without error, and returns
\* an empty Environment with an error.
C8_EnvironmentOrder ==
  (top = "GetEnvironment" \/ ret.op = "GetEnvironment") =>
    /\ Len(invoked) <= 3
    /\ \A i \in 1..Len(invoked) :
         /\ invoked[i].op = <<"GetScreens", "GetDesktops", "GetWindows">>[i]
         /\ i < Len(invoked) => invoked[i].status = "ok"
    /\ ret.status = "err" => ret.screens = {} /\ ret.desktops = {} /\ ret.windows = {}

\* C8 witness: GetEnvironment failed in GetDesktops and never invoked
\* GetWindows.
C8_Witness ==
  /\ ret.op = "GetEnvironment"
  /\ ret.status = "err"
  /\ Len(invoked) = 2
  /\ invoked[2].status = "err"

\* C9: every window GetWindows returns for a desktop map has one Desktop per
\* desktop id: the map's Desktop of that id, the zero Desktop for an id the
\* map does not hold.
C9_DesktopJoin ==
  (ret.op \in {"GetWindows", "GetEnvironment"} /\ ret.status = "ok" /\ ~dsArg.nil) =>
    \A e \in ret.windows :
      /\ Len(e.v.Desktops) = Len(e.v.DesktopIds)
      /\ \A i \in 1..Len(e.v.DesktopIds) :
           LET hits == {x \in dsArg.m : x.k = e.v.DesktopIds[i]}
           IN IF hits = {}
                THEN e.v.Desktops[i] = ZeroDesktop
                ELSE \A x \in hits : e.v.Desktops[i] = x.v

\* C9 witness: a returned window on two desktops of which the map holds the
\* first only.
C9_Witness ==
  /\ ret.status = "ok"
  /\ ~dsArg.nil
  /\ \E e \in ret.windows :
       /\ Len(e.v.DesktopIds) = 2
       /\ e.v.DesktopIds[1] \in MapKeys(dsArg.m)
       /\ e.v.DesktopIds[2] \notin MapKeys(dsArg.m)
       /\ e.v.Desktops[1] # ZeroDesktop
       /\ e.v.Desktops[2] = ZeroDesktop

\* The line does not decode into the record of the query operation op.
FailsToParse(op, line) ==
  IF op = "GetWindows"
    THEN ~UnmarshalWindow(StripPrefix(line)).ok
    ELSE ~Unmarshal(StripPrefix(line)).ok

\* C10 (as stated): a query whose output holds a line that fails to parse
\* returns an error and no collection.
C10_NoPartialResults ==
  (/\ ret.op # "none"
   /\ invoked # <<>>
   /\ invoked[Len(invoked)].op \in Queries
   /\ result.err = ""
   /\ \E i \in 1..Len(result.lines) :
        FailsToParse(invoked[Len(invoked)].op, result.lines[i])) =>
    /\ ret.status = "err"
    /\ ret.screens = {} /\ ret.desktops = {} /\ ret.windows = {}

\* The line decodes into a Desktop or Window record whose identifier is not
\* a well-formed UUID.
HasMalformedId(op, line) ==
  IF op = "GetWindows"
    THEN LET u == UnmarshalWindow(StripPrefix(line)) IN u.ok /\ ~ParseUUID(u.w.Id).ok
    ELSE LET u == Unmarshal(StripPrefix(line)) IN u.ok /\ ~ParseUUID(u.doc.id).ok

\* C11 (as stated): GetDesktops or GetWindows whose output holds a record
\* with a malformed identifier returns an error to its caller and no
\* collection; the program does not crash.
C11_IdentifierError ==
  (/\ ret.op \in {"GetDesktops", "GetWindows"}
   /\ result.err = ""
   /\ \E i \in 1..Len(result.lines) : HasMalformedId(ret.op, result.lines[i])) =>
    /\ ret.status = "err"
    /\ top # "crashed"
    /\ ret.desktops = {} /\ ret.windows = {}

\* The line is a print of the script engine: it begins with the prefix.
BeginsWithPrefix(line) == line # <<>> /\ line[1] = PFX

\* C12 (as stated): a query whose output holds a line that does not begin
\* with the logging prefix returns no collection, also when the text of the
\* line is a JSON object: such a line never contributes a record.
C12_UnprefixedLineRejected ==
  (/\ ret.op \in Queries
   /\ result.err = ""
   /\ \E i \in 1..Len(result.lines) : ~BeginsWithPrefix(result.lines[i])) =>
    /\ ret.status # "ok"
    /\ ret.screens = {} /\ ret.desktops = {} /\ ret.windows = {}

\* C13: when the journalctl child exits abnormally the call returns an error
\* and no lines: nothing the child wrote before reaches the caller.
C13_AbnormalExitDiscardsOutput ==
  (LastStep("journal") \/ (pc = "return" /\ At("journal") # {})) =>
    (~child.exitOk => result.err = "journal" /\ result.lines = <<>>)

\* C13 witness: the child wrote lines and exited abnormally, and the call is
\* about to return.
C13_Witness ==
  /\ pc = "return"
  /\ At("journal") # {}
  /\ ~child.exitOk
  /\ child.stdout # <<>>
  /\ child.stderr # <<>>
  /\ result.lines = <<>>

\* The line decodes into a Window whose process /proc cannot be read for.
LookupFails(line) ==
  LET u == UnmarshalWindow(StripPrefix(line))
  IN u.ok /\ getProcessCmdLine(procfs[u.w.Pid]).err

\* C14 (as stated): when the command-line lookup fails for one of the
\* windows of the output, GetWindows returns an error and no window map, and
\* GetEnvironment fails as a whole.
C14_LookupFailureFailsAll ==
  (/\ ret.op \in {"GetWindows", "GetEnvironment"}
   /\ invoked[Len(invoked)].op = "GetWindows"
   /\ result.err = ""
   /\ \E i \in 1..Len(result.lines) : LookupFails(result.lines[i])) =>
    /\ ret.status = "err"
    /\ top # "crashed"
    /\ ret.screens = {} /\ ret.desktops = {} /\ ret.windows = {}

\* The mutation op with arguments a finds nothing to act on among the
\* windows wl: its window id matches no window, its desktops or its screen
\* match nothing, or (the move operations) its window is not movable.
NoMatch(op, a, wl) ==
  \/ a.w \notin DOMAIN wl
  \/ op = "MoveWindowToDesktops" /\ (Range(a.ds) \cap CompositorDesktops = {} \/ ~wl[a.w].moveable)
  \/ op = "MoveWindowToScreen" /\ (a.s \notin CompositorScreens \/ ~wl[a.w].moveable)

\* Register, run and stop were all invoked and succeeded in this call.
IPCsOk == \A e \in {"register", "run", "stop"} : \E i \in At(e) : trace[i].ok
\* The journal query of this call succeeded.
JournalOk == \E i \in At("journal") : trace[i].ok

\* C15 (as stated): a mutation that finds nothing to act on returns success
\* when all IPC calls succeed, and leaves every window's state unchanged.
C15_NoMatchIsNoOp ==
  /\ [](( /\ pc = "return"
          /\ cur \in Mutations
          /\ NoMatch(cur, args, windowList)
          /\ IPCsOk) => result.err = "")
  /\ [][(cur \in Mutations /\ NoMatch(cur, args, windowList)) => windowList' = windowList]_vars

\* C15 (amended): a mutation that finds nothing to act on returns success
\* when all IPC calls and the journal query succeed, and leaves every
\* window's state unchanged.
C15_NoMatchIsNoOpAmended ==
  /\ [](( /\ pc = "return"
          /\ cur \in Mutations
          /\ NoMatch(cur, args, windowList)
          /\ IPCsOk
          /\ JournalOk) => result.err = "")
  /\ [][(cur \in Mutations /\ NoMatch(cur, args, windowList)) => windowList' = windowList]_vars

\* C15 witness: MoveWindowToDesktops for a live window that is not movable,
\* to a desktop the compositor has, ran and returns success; the window is
\* where it was.
C15_Witness ==
  /\ pc = "return"
  /\ cur = "MoveWindowToDesktops"
  /\ args.w \in DOMAIN windowList
  /\ ~windowList[args.w].moveable
  /\ Range(args.ds) \subseteq CompositorDesktops
  /\ IPCsOk
  /\ result.err = ""
  /\ windowList[args.w].desktops = NewWindow(FALSE).desktops

\* C16: a failure of closing or removing the temporary file never changes
\* what the call returns: the cleanup leaves the error and the lines as the
\* body set them, and no error of the cleanup is returned.
C16_CleanupKeepsResult ==
  /\ [](result.err \notin {"close", "remove"})
  /\ [][(pc \in {"Close", "Remove"}) => (result' = result)]_vars

\* C16 witness: the call returns lines and no error although closing the
\* temporary file failed.
C16_Witness ==
  /\ pc = "return"
  /\ \E i \in At("close") : ~trace[i].ok
  /\ result.err = ""
  /\ result.lines # <<>>

\* C17: a stop invoked a second time for the number just stopped, and a
\* cleanup run a second time after the file was removed, end in a reported
\* error, not in a crash; the number stays unregistered while the call lasts
\* and the file stays absent.
C17_ReleaseTwice ==
  /\ again.stop \in {"none", "err"}
  /\ again.cleanup \in {"none", "err"}
  /\ again.stop # "none" => again.no \notin registry
  /\ again.cleanup # "none" => file = "removed"

\* C17 witness: in one call both releases were invoked a second time.
C17_Witness ==
  /\ pc = "return"
  /\ again.stop = "err"
  /\ again.cleanup = "err"
  /\ file = "removed"

\* Two JSON objects have the same members with the same values.
FieldEquivalent(a, b) == DOMAIN a = DOMAIN b /\ \A k \in DOMAIN a : a[k] = b[k]

C20_StripsLeadingPrefixOnly ==
  probe.kind = "stripped" => probe.out = Tail(probe.line)

\* The steps of a call on which nothing failed, in order.
SuccessPath ==
  <<"create", "write", "chmod", "register", "start", "run", "stop", "end", "journal",
    "close", "remove">>

\* The microsecond m is the one the clock reading t falls in.
MicrosecondOf(m, t) == m * TicksPerMicro <= t /\ t < (m + 1) * TicksPerMicro

C21_AttentionFlagSet ==
  ( /\ pc = "return"
    /\ cur = "SetWindowDemandsAttention"
    /\ result.err = ""
    /\ args.w \in DOMAIN windowList ) =>
      windowList[args.w].demandsAttention = args.att

\* The operations MoveWindowToDesktopsAndScreen has invoked so far.
InvokedOps == [i \in 1..Len(invoked) |-> invoked[i].op]

\* C22: MoveWindowToDesktopsAndScreen performs the desktops move as one
\* complete execute round trip and then the screen move as a second one; if
\* the desktops move returns an error the screen move is never issued and that
\* error is returned.
C22_DesktopsThenScreen ==
  /\ []((top = "MoveWindowToDesktopsAndScreen") =>
          /\ InvokedOps \in {<<"MoveWindowToDesktops">>,
                             <<"MoveWindowToDesktops", "MoveWindowToScreen">>}
          /\ cur = InvokedOps[Len(invoked)]
          /\ Len(invoked) = 2 => invoked[1].status = "ok")
  /\ []((ret.op = "MoveWindowToDesktopsAndScreen" /\ invoked[1].status = "err") =>
          /\ Len(invoked) = 1
          /\ ret.status = "err"
          /\ ret.err = result.err
          /\ ret.err # "")
  /\ [][(top = "MoveWindowToDesktopsAndScreen" /\ cur = "MoveWindowToDesktops"
           /\ cur' = "MoveWindowToScreen") =>
          /\ pc = "return"
          /\ IPCsOk
          /\ JournalOk
          /\ result.err = ""
          /\ pc' = "CreateTemp"
          /\ trace' = <<>>]_vars

\* C22 witness: MoveWindowToDesktopsAndScreen returned the error of a
\* desktops move whose script was registered, and invoked nothing else.
C22_Witness ==
  /\ ret.op = "MoveWindowToDesktopsAndScreen"
  /\ ret.status = "err"
  /\ ret.err \in {"run", "stop", "journal"}
  /\ InvokedOps = <<"MoveWindowToDesktops">>

\* The caller waits in a read of an empty pipe whose write end is open, or
\* in cmd.Wait() for a child that has not exited.
CallerBlocked ==
  \/ cmd.pc = "scanStdout" /\ cmd.stdout = <<>> /\ ~cmd.exited
  \/ cmd.pc = "scanErrout" /\ cmd.errout = <<>> /\ ~cmd.exited
  \/ cmd.pc = "Wait" /\ ~cmd.exited

\* The child waits in a write to a full pipe.
ChildBlocked ==
  /\ ~cmd.exited
  /\ cmd.program # <<>>
  /\ Len(cmd[Head(cmd.program)]) = PipeCap

\* C23: no interleaving of the child's writes with the caller's reads leaves
\* the caller and the child blocked on each other.
C23_NoMutualBlock == ~(CallerBlocked /\ ChildBlocked)

\* C24: when every window record of the output parses, identifier included,
\* and the command-line lookup succeeds for each, also with an empty command
\* line, GetWindows returns a window map or an error and does not crash.
C24_GetWindowsReturns ==
  (/\ ret.op = "GetWindows"
   /\ result.err = ""
   /\ \A i \in 1..Len(result.lines) :
        /\ ~FailsToParse("GetWindows", result.lines[i])
        /\ ~HasMalformedId("GetWindows", result.lines[i])
        /\ ~LookupFails(result.lines[i])) =>
    /\ ret.status \in {"ok", "err"}
    /\ top # "crashed"

\* C25: when the journalctl child exits successfully, the lines the call
\* returns are exactly the lines the child wrote to its standard output, in
\* order; what it wrote to its standard error is not among them.
C25_StdoutOnly ==
  (pc = "return" /\ At("journal") # {} /\ child.exitOk) =>
    /\ result.err = ""
    /\ result.lines = child.stdout

====
